---- MODULE Spec2Model ----
(***************************************************************************)
(* Repository migration orchestrator: the in-memory registry (MemStorage), *)
(* the transfer engine (migrateRepository) and the migration routes.       *)
(*                                                                         *)
(* Execution model.  The server is one Node.js thread.  A callback of the  *)
(* event loop (an incoming request, the completion of an outbound HTTP     *)
(* call) is a macrotask; it starts only when no promise continuation       *)
(* (microtask) is pending.  An `await` on a promise that settles without   *)
(* I/O suspends the caller for microtasks only.  execSync, mkdtempSync and *)
(* rmSync block the thread until they return.                              *)
(***************************************************************************)
EXTENDS Integers, Sequences, FiniteSets, TLC

\* ------------------------------------------------------------------ bounds
MaxMigrations == 2   \* records created in one behaviour
MaxSetterCalls == 1  \* calls of the direct progress/error setters
MaxStorageCalls == 2 \* direct calls of the registry's mutators
MaxNameLen == 3      \* length of the generated repository names
MaxConnects == 2     \* submissions of the credentials form
MaxPolls == 3        \* requests sent by MigrationStatus

\* ------------------------------------------------------- optional values
None == << >>
Some(x) == << x >>
IsNull(o) == o = << >>
Val(o) == o[1]

VARIABLES
    heap,        \* per identifier: the Migration objects built for it, in order
    migrations,  \* MemStorage.migrations: the Map's entries in insertion order,
                 \* each a key (id) and the place in heap[id] of its object
    currentId,   \* MemStorage.currentId
    clock,       \* per identifier: the value the next `new Date()` stamps on it
    eng,         \* per identifier: the migrateRepository call bound to it
    dirs,        \* workspace directories that exist on the filesystem
    cleanupErrors, \* directories logged by 'Error cleaning up temporary directory'
    req,         \* the POST /api/migrations request being handled
    resp,        \* the response a route wrote in the callback that runs now (it
                 \* has left the process when the next callback starts)
    setter,      \* the direct progress/error setter request being handled
    setterCalls, \* number of mutator calls made so far from outside the engine
    polled,      \* the record the poller's last GET /api/migrations/:id (or a
                 \* caller's last getMigration) returned
    ret,         \* what the last direct call of a registry method returned or threw
    sanitized,   \* a name, and sanitizeRepoName applied to it once and twice
    session,     \* the browser's sessionStorage: per key, the item stored under it
    connect,     \* the Home.onSubmit call in progress
    connects,    \* number of times the credentials form has been submitted
    cr,          \* the createGitHubRepository call in progress, or its outcome
    sent,        \* the requests the current createGitHubRepository call has sent
    watch        \* the MigrationStatus component: its prop, its query's data

\* The state of the browser tab.
browser == << session, connect, connects, cr, sent >>

vars == << heap, migrations, currentId, clock, eng, dirs, cleanupErrors, req,
           resp, setter, setterCalls, polled, ret, sanitized, browser, watch >>

Ids == 1 .. MaxMigrations

Terminal == {"completed", "failed", "cancelled"}

\* ------------------------------------------------------------------- Map
\* A JavaScript Map as the sequence of its entries, in insertion order.
Keys(map) == { map[i].key : i \in DOMAIN map }
MapIndex(map, k) == CHOOSE i \in DOMAIN map : map[i].key = k
MapGet(map, k) == map[MapIndex(map, k)].at

\* Variant: setting a key that is present moves its entry to the end.
MapSet_Reinsert(map, k, v) ==
    Append(SelectSeq(map, LAMBDA en : en.key # k), [ key |-> k, at |-> v ])

\* map.set(k, v): a present key keeps its place, a new key goes to the end.
MapSet(map, k, v) ==
    IF k \in Keys(map)
    THEN [ map EXCEPT ![MapIndex(map, k)].at = v ]
    ELSE Append(map, [ key |-> k, at |-> v ])

\* ------------------------------------------------------------- MemStorage
\* createMigration: the object built from the insert value.
NewMigration(id, insert) ==
    [ id |-> id,
      sourceRepo |-> insert.sourceRepo,
      targetRepo |-> insert.targetRepo,
      status |-> insert.status,
      progress |-> 0,
      error |-> None,
      azureToken |-> insert.azureToken,
      githubToken |-> insert.githubToken,
      startedAt |-> None,
      completedAt |-> None ]

\* Variant: startedAt is stamped by every status update.
WithStatus_Restamp(m, status, now) ==
    [ m EXCEPT !.status = status,
               !.completedAt = IF status = "completed" THEN Some(now) ELSE @,
               !.startedAt = Some(now) ]

\* updateMigrationStatus: { ...migration, status, completedAt?, startedAt? }.
WithStatus(m, status, now) ==
    [ m EXCEPT !.status = status,
               !.completedAt = IF status = "completed" THEN Some(now) ELSE @,
               !.startedAt = IF status = "in_progress" /\ IsNull(@)
                             THEN Some(now) ELSE @ ]

\* Variant: a progress update also clears the error.
WithProgress_ClearsError(m, progress) ==
    [ m EXCEPT !.progress = progress, !.error = << >> ]

\* updateMigrationProgress: { ...migration, progress }.
WithProgress(m, progress) == [ m EXCEPT !.progress = progress ]

\* updateMigrationError: { ...migration, error }.
WithError(m, error) == [ m EXCEPT !.error = error ]

\* The replacement object a mutator call op = [kind, val] builds from m.
Updated(m, op, now) ==
    CASE op.kind = "status" -> WithStatus(m, op.val, now)
      [] op.kind = "progress" -> WithProgress(m, op.val)
      [] op.kind = "error" -> WithError(m, op.val)

\* Variant: the object read is changed in place instead of being replaced.
Commit_InPlace(h, mig, id, rd, updated) ==
    [ heap |-> [ h EXCEPT ![id][rd] = updated ],
      migrations |-> mig ]

\* this.migrations.set(id, updated): a new object is stored under id; the
\* object read before (heap[id][rd]) is left as it was.
Commit(h, mig, id, rd, updated) ==
    [ heap |-> [ h EXCEPT ![id] = Append(@, updated) ],
      migrations |-> MapSet(mig, id, Len(h[id]) + 1) ]

\* Variant: a registry whose reads wait for I/O (a durable store).
MutatorAwaitsIO_Durable == TRUE

\* The only await inside a mutator is on getMigration, which settles without
\* I/O: between its read and its write a mutator is suspended for microtasks.
MutatorAwaitsIO == FALSE

\* Variant: a mutator given an unknown identifier returns without a word.
Missing_Silent == [ ok |-> TRUE, error |-> [ response |-> None, message |-> << >> ] ]

\* if (!migration) throw new Error("Migration not found")
Missing == [ ok |-> FALSE,
             error |-> [ response |-> None, message |-> << "Migration not found" >> ] ]

\* getMigration(id): the current object, or undefined.
Found(id) == id \in Keys(migrations)
Current(id) == heap[id][MapGet(migrations, id)]

\* getAllMigrations(): Array.from(this.migrations.values()).
GetAllMigrations ==
    [ i \in DOMAIN migrations |-> heap[migrations[i].key][migrations[i].at] ]

\* ------------------------------------------------------------ error values
\* A text is the sequence of the pieces it was put together from (a template
\* literal's fixed parts and interpolated values); the empty text is << >>.
Text(s) == << s >>
Contains(text, piece) == \E i \in DOMAIN text : text[i] = piece

\* A thrown value: an axios error carries response {status, data.message}
\* (reason: what the host's data.errors says); every Error carries message.
Err(response, message) == [ response |-> response, message |-> message ]
Response(status, message, reason) ==
    Some([ status |-> status, message |-> message, reason |-> reason ])

Truthy(o) == ~IsNull(o) /\ Val(o) # << >>

\* Variant: the exception's own message is preferred to the host's.
ErrorMessage_ExceptionFirst(e) ==
    IF e.message # << >> THEN e.message
    ELSE IF ~IsNull(e.response) /\ Truthy(Val(e.response).message)
    THEN Val(Val(e.response).message)
    ELSE Text("Migration failed")

\* error.response?.data?.message || error.message || "Migration failed"
ErrorMessage(e) ==
    IF ~IsNull(e.response) /\ Truthy(Val(e.response).message)
    THEN Val(Val(e.response).message)
    ELSE IF e.message # << >> THEN e.message ELSE Text("Migration failed")

Ok == [ ok |-> TRUE, error |-> Err(None, << >>) ]
Fail(e) == [ ok |-> FALSE, error |-> e ]

\* ------------------------------------------------------- migrateRepository
\* The statements of migrateRepository in program order; each is a storage
\* mutator call ("mut"), a blocking call ("sync") or an awaited HTTP call
\* ("io").
Kind(pc) ==
    CASE pc \in {"status_in_progress", "progress10", "progress20", "progress40",
                 "progress90", "status_completed", "progress100",
                 "status_failed", "set_error"} -> "mut"
      [] pc \in {"decrypt", "mkdtemp", "clone", "seturl", "push", "cleanup"} -> "sync"
      [] pc = "create" -> "io"
      [] OTHER -> "end"

\* Variant: the credentials are decrypted just before the clone needs them.
NextPc_DecryptLate(pc) ==
    CASE pc = "status_in_progress" -> "progress10"
      [] pc = "progress10" -> "progress20"
      [] pc = "progress20" -> "mkdtemp"
      [] pc = "mkdtemp" -> "progress40"
      [] pc = "progress40" -> "decrypt"
      [] pc = "decrypt" -> "clone"
      [] pc = "clone" -> "create"
      [] pc = "create" -> "seturl"
      [] pc = "seturl" -> "push"
      [] pc = "push" -> "progress90"
      [] pc = "progress90" -> "status_completed"
      [] pc = "status_completed" -> "progress100"
      [] pc = "progress100" -> "cleanup"
      [] pc = "status_failed" -> "set_error"
      [] pc = "set_error" -> "cleanup"
      [] pc = "cleanup" -> "done"

\* The statement after pc when pc returns normally.
NextPc(pc) ==
    CASE pc = "status_in_progress" -> "progress10"
      [] pc = "progress10" -> "decrypt"
      [] pc = "decrypt" -> "progress20"
      [] pc = "progress20" -> "mkdtemp"
      [] pc = "mkdtemp" -> "progress40"
      [] pc = "progress40" -> "clone"
      [] pc = "clone" -> "create"
      [] pc = "create" -> "seturl"
      [] pc = "seturl" -> "push"
      [] pc = "push" -> "progress90"
      [] pc = "progress90" -> "status_completed"
      [] pc = "status_completed" -> "progress100"
      [] pc = "progress100" -> "cleanup"
      [] pc = "status_failed" -> "set_error"
      [] pc = "set_error" -> "cleanup"
      [] pc = "cleanup" -> "done"

\* Variant: the catch block stores cancelled where it should store failed.
MutOf_CancelOnError(pc, err) ==
    CASE pc = "status_in_progress" -> [ kind |-> "status", val |-> "in_progress" ]
      [] pc = "progress10" -> [ kind |-> "progress", val |-> 10 ]
      [] pc = "progress20" -> [ kind |-> "progress", val |-> 20 ]
      [] pc = "progress40" -> [ kind |-> "progress", val |-> 40 ]
      [] pc = "progress90" -> [ kind |-> "progress", val |-> 90 ]
      [] pc = "status_completed" -> [ kind |-> "status", val |-> "completed" ]
      [] pc = "progress100" -> [ kind |-> "progress", val |-> 100 ]
      [] pc = "status_failed" -> [ kind |-> "status", val |-> "cancelled" ]
      [] pc = "set_error" -> [ kind |-> "error", val |-> Some(ErrorMessage(Val(err))) ]

\* The mutator call made at pc by the run whose caught error is err.
MutOf(pc, err) ==
    CASE pc = "status_in_progress" -> [ kind |-> "status", val |-> "in_progress" ]
      [] pc = "progress10" -> [ kind |-> "progress", val |-> 10 ]
      [] pc = "progress20" -> [ kind |-> "progress", val |-> 20 ]
      [] pc = "progress40" -> [ kind |-> "progress", val |-> 40 ]
      [] pc = "progress90" -> [ kind |-> "progress", val |-> 90 ]
      [] pc = "status_completed" -> [ kind |-> "status", val |-> "completed" ]
      [] pc = "progress100" -> [ kind |-> "progress", val |-> 100 ]
      [] pc = "status_failed" -> [ kind |-> "status", val |-> "failed" ]
      [] pc = "set_error" -> [ kind |-> "error", val |-> Some(ErrorMessage(Val(err))) ]

\* decrypt(token) of ./utils/crypto: the plaintext of a stored credential.
Decrypt(c) ==
    CASE c = "enc:azure-pat" -> "azure-pat"
      [] c = "enc:github-pat" -> "github-pat"

\* The command line execSync is given at pc for migration m.
CommandLine(pc, m) ==
    CASE pc = "clone" ->
            << "git clone --mirror \"https://:", Decrypt(m.azureToken), "@dev.azure.com/" >>
            \o SubSeq(m.sourceRepo, 2, Len(m.sourceRepo)) \o << "\" ." >>
      [] pc = "seturl" ->
            << "git remote set-url origin \"https://", Decrypt(m.githubToken), "@github.com/" >>
            \o m.targetRepo \o << ".git\"" >>
      [] pc = "push" -> << "git push --mirror" >>

\* The Error execSync throws when the command exits with a failure: its
\* message starts with "Command failed: " and the command line.
ExecError(cmd) == Err(None, << "Command failed: " >> \o cmd)

\* What a blocking call at pc can do for migration m: return, or throw an
\* Error.  decrypt lives outside this repository's sources, so the message of
\* its Error is open.
SyncOutcomes(pc, m) ==
    CASE pc = "decrypt" -> {Ok, Fail(Err(None, << >>)), Fail(Err(None, Text("Invalid encrypted data")))}
      [] pc = "mkdtemp" -> {Ok, Fail(Err(None, Text("ENOSPC: mkdtemp")))}
      [] pc \in {"clone", "seturl", "push"} -> {Ok, Fail(ExecError(CommandLine(pc, m)))}
      [] pc = "cleanup" -> {Ok, Fail(Err(None, Text("EBUSY: rm")))}
      [] OTHER -> {}

\* What POST https://api.github.com/user/repos can answer.
CreateOutcomes ==
    { Ok,
      Fail(Err(Response(422, Some(Text("Repository creation failed.")), "already_exists"),
               Text("Request failed with status code 422"))),
      Fail(Err(Response(422, Some(Text("Validation Failed")), "invalid_name"),
               Text("Request failed with status code 422"))),
      Fail(Err(Response(401, Some(Text("Bad credentials")), "unauthorized"),
               Text("Request failed with status code 401"))),
      Fail(Err(Response(500, None, "server_error"),
               Text("Request failed with status code 500"))),
      Fail(Err(None, Text("Network Error"))) }

\* Variant: the conflict status 409 is taken for "already exists".
CreateIgnored_Conflict(e) == ~IsNull(e.response) /\ Val(e.response).status = 409

\* catch (error) { if (error.response?.status !== 422) throw error }
CreateIgnored(e) == ~IsNull(e.response) /\ Val(e.response).status = 422

NoEngine ==
    [ pc |-> "none", phase |-> "ready", arg |-> 0, rd |-> 0, tempDir |-> None,
      err |-> None, failedAt |-> "", createOut |-> None, calls |-> << >>,
      escaped |-> FALSE ]

Running(id) == eng[id].pc \notin {"none", "done"}

\* The migration argument of the call bound to id.
Argument(id) == heap[id][eng[id].arg]

\* migrateRepository has returned: its locals are gone.
Returned(e) == [ NoEngine EXCEPT !.pc = "done", !.escaped = e.escaped ]

\* Variant: the workspace is removed at the end of the try block only.
NeedsCleanup_OnSuccessOnly(e) == ~IsNull(e.tempDir) /\ IsNull(e.err)

\* finally { if (tempDir) ... }
NeedsCleanup(e) == ~IsNull(e.tempDir)

\* Variant: the workspace path is a fixed one.
FreshDir_Fixed(existing) == 1

\* mkdtempSync(join(tmpdir(), 'repo-migration-')): a directory name that no
\* existing directory has.
FreshDir(existing) == CHOOSE n \in 1 .. (Cardinality(existing) + 1) : n \notin existing

\* The thread is inside a blocking call.
Busy == \E id \in Ids : eng[id].phase = "busy"

\* ---------------------------------------------------------- the event loop
\* ------------------------------------------------------- validateBothTokens
\* What a request carries in a session-token header: nothing, a string that
\* jwt.verify rejects (malformed, expired or signed with another secret),
\* the session token the server issued for an Azure PAT, or the one it
\* issued for a GitHub PAT.
TokenKinds == {"none", "invalid", "azure", "github"}
NoHeaders == [ authorization |-> "none", xgithub |-> "none" ]

\* The headers the pages of this repository send.
SessionHeaders == [ authorization |-> "azure", xgithub |-> "github" ]
\* A GitHub session token sent in both headers.
GitHubTwice == [ authorization |-> "github", xgithub |-> "github" ]

\* jwt.verify(token, JWT_SECRET): both kinds are signed with the one secret.
Verifies(token, kind) == token \in {"azure", "github"}

\* next() is called: both headers are present and both tokens verify.
Passes(h) ==
    /\ h.authorization # "none"
    /\ h.xgithub # "none"
    /\ Verifies(h.authorization, "azure")
    /\ Verifies(h.xgithub, "github")

\* req.user.organization: the Azure session token's payload has one, the
\* GitHub session token's has none.
HasOrganization(h) == h.authorization = "azure"

NoSetter == [ kind |-> "none", id |-> 0, val |-> 0, rd |-> 0, hdr |-> NoHeaders ]
NoRequest == [ slots |-> << >>, responded |-> TRUE, hdr |-> NoHeaders ]
NoResponse == [ route |-> "", code |-> 0, body |-> None, hdr |-> NoHeaders ]

\* res.status(401).json({ error: ... })
Unauthorized(route, h) == [ route |-> route, code |-> 401, body |-> None, hdr |-> h ]
NoReturn == [ op |-> "", id |-> 0, ok |-> TRUE, value |-> None, error |-> << >> ]
NoName == [ name |-> << >>, once |-> None, twice |-> None ]

SlotsIn(states) == \A i \in DOMAIN req.slots : req.slots[i].st \in states

\* A continuation of migrateRepository(id) waits in the microtask queue.
EngMicro(id) ==
    /\ Running(id)
    /\ \/ eng[id].phase = "ready"
       \/ eng[id].phase = "write" /\ ~MutatorAwaitsIO

\* A continuation of the POST /api/migrations handler waits in the queue.
ReqMicro ==
    \/ \E i \in DOMAIN req.slots : req.slots[i].st = "created"
    \/ ~req.responded /\ req.slots # << >> /\ SlotsIn({"started"})

\* The continuation of a direct setter's handler waits in the queue.
SetterMicro == setter.kind # "none" /\ ~MutatorAwaitsIO

MicroPending == ReqMicro \/ SetterMicro \/ \E id \in Ids : EngMicro(id)

\* A new callback of the event loop may start.
MacroTask == ~Busy /\ ~MicroPending
\* A pending continuation may run.
MicroTask == ~Busy
\* The continuation after `await this.getMigration(id)` inside a mutator.
MutatorResumes == ~Busy /\ (MutatorAwaitsIO => ~MicroPending)

\* The items the client keeps in sessionStorage; none is stored at first.
SessionKeys ==
    {"azure_token", "azure_organization", "github_token",
     "azure_session_token", "github_session_token"}
NoSession == [ k \in SessionKeys |-> None ]

\* No submission of the credentials form is in progress.
NoConnect == [ pc |-> "idle", n |-> 0, outcome |-> "" ]

\* No createGitHubRepository call has been made.
NoCall ==
    [ pc |-> "idle", attempt |-> 0, name |-> << >>, lastError |-> None,
      replies |-> << >>, errorData |-> None, host |-> "", result |-> None ]

\* MigrationStatus is not mounted.
NoWatch == [ migration |-> None, data |-> None, polls |-> 0 ]

\* The server after start-up: an empty registry, nothing in progress.
ServerIdle ==
    /\ heap = [ id \in Ids |-> << >> ]
    /\ migrations = << >>
    /\ currentId = 1
    /\ clock = [ id \in Ids |-> 1 ]
    /\ eng = [ id \in Ids |-> NoEngine ]
    /\ dirs = {}
    /\ cleanupErrors = {}
    /\ req = NoRequest
    /\ resp = NoResponse
    /\ setter = NoSetter
    /\ setterCalls = 0
    /\ polled = None
    /\ ret = NoReturn

\* The server after start-up and a newly opened browser tab.
Idle ==
    /\ ServerIdle
    /\ session = NoSession
    /\ connect = NoConnect
    /\ connects = 0
    /\ cr = NoCall
    /\ sent = << >>
    /\ watch = NoWatch

Init ==
    /\ Idle
    /\ sanitized = NoName

\* --------------------------------------------------- migrateRepository steps
\* Variant: a failing stage is logged and the run goes on with the next one.
Thrown_GoesOn(e, err) ==
    [ e EXCEPT !.pc = NextPc(e.pc), !.phase = "ready", !.rd = 0,
               !.err = Some(err), !.failedAt = e.pc ]

\* A statement of migrateRepository threw e: inside try, control goes to the
\* catch block; inside the catch block, to finally, and the error escapes.
Thrown(e, err) ==
    IF e.pc \in {"status_failed", "set_error"}
    THEN [ e EXCEPT !.pc = "cleanup", !.phase = "ready", !.rd = 0, !.escaped = TRUE ]
    ELSE [ e EXCEPT !.pc = "status_failed", !.phase = "ready", !.rd = 0,
                    !.err = Some(err), !.failedAt = e.pc ]

\* Variant: a failing removal is treated like a failing stage.
CleanupThrew_Fatal(e, err) ==
    [ e EXCEPT !.pc = "status_failed", !.phase = "ready", !.rd = 0,
               !.err = Some(err), !.failedAt = e.pc ]

\* rmSync threw: catch (err) { console.error(...) }, and the call returns.
CleanupThrew(e, err) == Returned(e)

\* The synchronous part of a mutator call: getMigration(id), or the throw.
AfterRead(e, id) ==
    IF Found(id)
    THEN [ e EXCEPT !.rd = MapGet(migrations, id), !.phase = "write" ]
    ELSE Thrown(e, Missing.error)

\* migrateRepository reaches a storage mutator call and makes it.
EngRead(id) ==
    /\ UNCHANGED << ret, sanitized, browser, watch >>
    /\ MicroTask
    /\ Running(id)
    /\ eng[id].phase = "ready"
    /\ Kind(eng[id].pc) = "mut"
    /\ eng' = [ eng EXCEPT ![id] = AfterRead(@, id) ]
    /\ UNCHANGED << heap, migrations, currentId, clock, dirs, cleanupErrors, req, resp,
                    setter, setterCalls, polled >>

\* The mutator builds the replacement object and stores it.
EngWrite(id) ==
    /\ UNCHANGED << ret, sanitized, browser, watch >>
    /\ MutatorResumes
    /\ eng[id].phase = "write"
    /\ LET e == eng[id]
           op == MutOf(e.pc, e.err)
           c == Commit(heap, migrations, id, e.rd,
                       Updated(heap[id][e.rd], op, clock[id]))
       IN /\ heap' = c.heap
          /\ migrations' = c.migrations
          /\ clock' = IF op.kind = "status" THEN [ clock EXCEPT ![id] = @ + 1 ] ELSE clock
          /\ eng' = [ eng EXCEPT ![id].pc = NextPc(e.pc), ![id].phase = "ready",
                                 ![id].rd = 0 ]
    /\ UNCHANGED << currentId, dirs, cleanupErrors, req, resp, setter, setterCalls, polled >>

\* migrateRepository enters a blocking call (finally: only if tempDir is set).
EngBegin(id) ==
    /\ UNCHANGED << ret, sanitized, browser, watch >>
    /\ MicroTask
    /\ Running(id)
    /\ eng[id].phase = "ready"
    /\ Kind(eng[id].pc) = "sync"
    /\ eng' = [ eng EXCEPT ![id] =
                  IF @.pc = "cleanup" /\ ~NeedsCleanup(@)
                  THEN Returned(@)
                  ELSE [ @ EXCEPT !.phase = "busy", !.calls = Append(@, eng[id].pc) ] ]
    /\ UNCHANGED << heap, migrations, currentId, clock, dirs, cleanupErrors, req, resp,
                    setter, setterCalls, polled >>

\* The blocking call returns or throws.
EngEnd(id, out) ==
    /\ UNCHANGED << ret, sanitized, browser, watch >>
    /\ eng[id].phase = "busy"
    /\ out \in SyncOutcomes(eng[id].pc, Argument(id))
    /\ LET e == eng[id]
       IN IF e.pc = "cleanup"
          THEN \* rmSync; a throw is caught and logged
               /\ eng' = [ eng EXCEPT ![id] = IF out.ok THEN Returned(@)
                                                ELSE CleanupThrew(@, out.error) ]
               /\ dirs' = IF out.ok THEN dirs \ {Val(e.tempDir)} ELSE dirs
               /\ cleanupErrors' = IF out.ok THEN cleanupErrors
                                   ELSE cleanupErrors \cup {Val(e.tempDir)}
          ELSE IF ~out.ok
          THEN /\ eng' = [ eng EXCEPT ![id] = Thrown(@, out.error) ]
               /\ UNCHANGED << dirs, cleanupErrors >>
          ELSE IF e.pc = "mkdtemp"
          THEN /\ eng' = [ eng EXCEPT ![id].pc = NextPc(e.pc), ![id].phase = "ready",
                                      ![id].tempDir = Some(FreshDir(dirs)) ]
               /\ dirs' = dirs \cup {FreshDir(dirs)}
               /\ UNCHANGED cleanupErrors
          ELSE /\ eng' = [ eng EXCEPT ![id].pc = NextPc(e.pc), ![id].phase = "ready" ]
               /\ UNCHANGED << dirs, cleanupErrors >>
    /\ UNCHANGED << heap, migrations, currentId, clock, req, resp, setter,
                    setterCalls, polled >>

\* axios.post(https://api.github.com/user/repos) is sent and awaited.
EngSend(id) ==
    /\ UNCHANGED << ret, sanitized, browser, watch >>
    /\ MicroTask
    /\ Running(id)
    /\ eng[id].phase = "ready"
    /\ Kind(eng[id].pc) = "io"
    /\ eng' = [ eng EXCEPT ![id].phase = "wait", ![id].calls = Append(@, "create") ]
    /\ UNCHANGED << heap, migrations, currentId, clock, dirs, cleanupErrors, req, resp,
                    setter, setterCalls, polled >>

\* The target host answers the creation call.
EngResponse(id, out) ==
    /\ UNCHANGED << ret, sanitized, browser, watch >>
    /\ MacroTask
    /\ eng[id].phase = "wait"
    /\ out \in CreateOutcomes
    /\ eng' = [ eng EXCEPT ![id] =
                  IF out.ok \/ CreateIgnored(out.error)
                  THEN [ @ EXCEPT !.pc = NextPc(@), !.phase = "ready",
                                  !.createOut = Some(out) ]
                  ELSE [ Thrown(@, out.error) EXCEPT !.createOut = Some(out) ] ]
    /\ resp' = NoResponse
    /\ UNCHANGED << heap, migrations, currentId, clock, dirs, cleanupErrors, req, setter,
                    setterCalls, polled >>

\* ------------------------------------------------------ POST /api/migrations
\* Variant: the counter is read but not advanced.
CreateMigration_NoIncrement(h, mig, cid, insert) ==
    [ heap |-> [ h EXCEPT ![cid] = Append(@, NewMigration(cid, insert)) ],
      migrations |-> MapSet(mig, cid, Len(h[cid]) + 1),
      currentId |-> cid,
      id |-> cid,
      addr |-> Len(h[cid]) + 1 ]

\* createMigration: const id = this.currentId++; this.migrations.set(id, migration).
CreateMigration(h, mig, cid, insert) ==
    [ heap |-> [ h EXCEPT ![cid] = Append(@, NewMigration(cid, insert)) ],
      migrations |-> MapSet(mig, cid, Len(h[cid]) + 1),
      currentId |-> cid + 1,
      id |-> cid,
      addr |-> Len(h[cid]) + 1 ]

\* The repositories requests select: the n-th record of a behaviour is
\* made for the repository named RepoName(n), so records of distinct
\* identifiers carry distinct locators.
RepoName(n) == CASE n = 1 -> "Repo A" [] n = 2 -> "Repo B" [] OTHER -> "Repo C"

\* migrationData built from the fetched repository details (remoteUrl, name).
MigrationData(n) ==
    [ sourceRepo |-> << "dev.azure.com", "org", "proj", "_git", RepoName(n) >>,
      targetRepo |-> << "target-org", RepoName(n) >>,
      status |-> "pending",
      azureToken |-> "enc:azure-pat",
      githubToken |-> "enc:github-pat" ]

\* The handler's closure is dropped once the request is answered and every
\* one of its fetches has been dealt with.
Settled(r) ==
    IF r.responded /\ \A i \in DOMAIN r.slots : r.slots[i].st \in {"started", "failed"}
    THEN NoRequest
    ELSE r

\* A request with headers h selecting k repositories arrives; past
\* validateBothTokens the handler decrypts the session's tokens, checks the
\* organization and sends one fetch per repository.
PostMigrationsRoute(h, k, o) ==
    /\ UNCHANGED << ret, sanitized, browser, watch >>
    /\ MacroTask
    /\ req = NoRequest
    /\ k \in 1 .. MaxMigrations
    /\ (currentId - 1) + k <= MaxMigrations
    /\ o \in {"ok", "decrypt_throws", "no_organization"}
    /\ Passes(h) => (o = "no_organization" <=> (o # "decrypt_throws" /\ ~HasOrganization(h)))
    /\ IF ~Passes(h)
       THEN /\ req' = NoRequest
            /\ resp' = Unauthorized("create", h)
       ELSE IF o = "ok"
       THEN /\ req' = [ slots |-> [ i \in 1 .. k |-> [ st |-> "fetching", id |-> 0, addr |-> 0 ] ],
                        responded |-> FALSE, hdr |-> h ]
            /\ resp' = NoResponse
       ELSE /\ req' = NoRequest
            /\ resp' = [ route |-> "create", code |-> 400, body |-> None, hdr |-> h ]
    /\ UNCHANGED << heap, migrations, currentId, clock, eng, dirs, cleanupErrors, setter,
                    setterCalls, polled >>

\* The request as the Migration page sends it; the session has no
\* organization when the Authorization header holds a GitHub session token.
PostMigrations(k, o) ==
    PostMigrationsRoute(IF o = "no_organization" THEN GitHubTwice ELSE SessionHeaders, k, o)

\* The fetch of the i-th repository's details ends: on success the record is
\* created; on failure Promise.all rejects and the handler answers 400.
FetchDone(i, ok) ==
    /\ UNCHANGED << ret, sanitized, browser, watch >>
    /\ MacroTask
    /\ i \in DOMAIN req.slots
    /\ req.slots[i].st = "fetching"
    /\ IF ok
       THEN LET c == CreateMigration(heap, migrations, currentId, MigrationData(currentId))
            IN /\ heap' = c.heap
               /\ migrations' = c.migrations
               /\ currentId' = c.currentId
               /\ req' = [ req EXCEPT !.slots[i] =
                                     [ st |-> "created", id |-> c.id, addr |-> c.addr ] ]
               /\ resp' = NoResponse
       ELSE /\ req' = Settled([ req EXCEPT !.slots[i].st = "failed", !.responded = TRUE ])
            /\ resp' = IF req.responded THEN NoResponse
                        ELSE [ route |-> "create", code |-> 400, body |-> None,
                               hdr |-> req.hdr ]
            /\ UNCHANGED << heap, migrations, currentId >>
    /\ UNCHANGED << clock, eng, dirs, cleanupErrors, setter, setterCalls, polled >>

\* migrateRepository(migration).catch(console.error): the call runs up to its
\* first await, inside updateMigrationStatus(migration.id, "in_progress").
StartEngine(i) ==
    /\ UNCHANGED << ret, sanitized, browser, watch >>
    /\ MicroTask
    /\ i \in DOMAIN req.slots
    /\ req.slots[i].st = "created"
    /\ LET migration == heap[req.slots[i].id][req.slots[i].addr]
       IN eng' = [ eng EXCEPT ![migration.id] =
                     AfterRead([ NoEngine EXCEPT !.pc = "status_in_progress",
                                                 !.arg = req.slots[i].addr ],
                               migration.id) ]
    /\ req' = Settled([ req EXCEPT !.slots[i].st = "started" ])
    /\ UNCHANGED << heap, migrations, currentId, clock, dirs, cleanupErrors, resp, setter,
                    setterCalls, polled >>

\* res.json(migrations[0]): the object createMigration returned for the first
\* selected repository is serialized as it is now.
Respond ==
    /\ UNCHANGED << ret, sanitized, browser, watch >>
    /\ MicroTask
    /\ ~req.responded
    /\ req.slots # << >>
    /\ SlotsIn({"started"})
    /\ resp' = [ route |-> "create", code |-> 200,
                 body |-> Some(heap[req.slots[1].id][req.slots[1].addr]), hdr |-> req.hdr ]
    /\ req' = Settled([ req EXCEPT !.responded = TRUE ])
    /\ UNCHANGED << heap, migrations, currentId, clock, eng, dirs, cleanupErrors, setter,
                    setterCalls, polled >>

\* ---------------------------------------------------- GET /api/migrations/:id
\* The poller's request is served: res.json(migration) of the current
\* object, or 404 when getMigration returns undefined.
PollRoute(h, id) ==
    /\ UNCHANGED << ret, sanitized, browser >>
    /\ MacroTask
    /\ IF ~Passes(h)
       THEN /\ polled' = polled
            /\ resp' = Unauthorized("get", h)
       ELSE IF Found(id)
       THEN /\ polled' = Some(Current(id))
            /\ resp' = [ route |-> "get", code |-> 200, body |-> Some(Current(id)), hdr |-> h ]
       ELSE /\ polled' = polled
            /\ resp' = [ route |-> "get", code |-> 404, body |-> None, hdr |-> h ]
    /\ UNCHANGED << heap, migrations, currentId, clock, eng, dirs, cleanupErrors, req, setter,
                    setterCalls >>

\* The same request from a client other than MigrationStatus.
Poll(id) == PollRoute(SessionHeaders, id) /\ UNCHANGED watch

\* ------------------------------------------------------- GET /api/migrations
\* res.json(await storage.getAllMigrations()).
ListRoute(h) ==
    /\ UNCHANGED << ret, sanitized, browser, watch >>
    /\ MacroTask
    /\ resp' = IF ~Passes(h) THEN Unauthorized("list", h)
               ELSE [ route |-> "list", code |-> 200, body |-> Some(GetAllMigrations),
                      hdr |-> h ]
    /\ UNCHANGED << heap, migrations, currentId, clock, eng, dirs, cleanupErrors, req, setter,
                    setterCalls, polled >>

List == ListRoute(SessionHeaders)

\* ------------------------------------ POST /api/migrations/:id/progress, /error
ProgressInputs == {5, 150}
ErrorInputs == {None, Some(Text("operator note"))}

\* A direct setter request arrives; the mutator reads the record, or throws
\* and the handler answers 404.
SetterRoute(h, kind, id, val) ==
    /\ UNCHANGED << ret, sanitized, browser, watch >>
    /\ MacroTask
    /\ setter.kind = "none"
    /\ setterCalls < MaxSetterCalls
    /\ \/ kind = "progress" /\ val \in ProgressInputs
       \/ kind = "error" /\ val \in ErrorInputs
    /\ IF ~Passes(h)
       THEN /\ setter' = NoSetter
            /\ resp' = Unauthorized(kind, h)
       ELSE IF Found(id)
       THEN /\ setter' = [ kind |-> kind, id |-> id, val |-> val,
                           rd |-> MapGet(migrations, id), hdr |-> h ]
            /\ resp' = NoResponse
       ELSE /\ setter' = NoSetter
            /\ resp' = [ route |-> kind, code |-> 404, body |-> None, hdr |-> h ]
    /\ setterCalls' = setterCalls + 1
    /\ UNCHANGED << heap, migrations, currentId, clock, eng, dirs, cleanupErrors, req, polled >>

SetterRequest(kind, id, val) == SetterRoute(SessionHeaders, kind, id, val)

\* The direct setter's mutator stores the replacement object and the route
\* answers with it: res.json(migration).
SetterWrite ==
    /\ UNCHANGED << ret, sanitized, browser, watch >>
    /\ MutatorResumes
    /\ setter.kind # "none"
    /\ LET updated == Updated(heap[setter.id][setter.rd], setter, clock[setter.id])
           c == Commit(heap, migrations, setter.id, setter.rd, updated)
       IN /\ heap' = c.heap
          /\ migrations' = c.migrations
          /\ resp' = [ route |-> setter.kind, code |-> 200, body |-> Some(updated),
                       hdr |-> setter.hdr ]
    /\ setter' = NoSetter
    /\ UNCHANGED << currentId, clock, eng, dirs, cleanupErrors, req, setterCalls, polled >>

\* ------------------------------------------- direct calls of the registry
\* The registry (IStorage) as its callers may use it: any method, any
\* argument, in any order.
StatusInputs == {"pending", "in_progress", "completed", "failed", "cancelled"}

Returns(op, id, value) ==
    [ op |-> op, id |-> id, ok |-> TRUE, value |-> value, error |-> << >> ]

\* createMigration(insertMigration)
StCreate ==
    /\ currentId <= MaxMigrations
    /\ LET c == CreateMigration(heap, migrations, currentId, MigrationData(currentId))
       IN /\ heap' = c.heap
          /\ migrations' = c.migrations
          /\ currentId' = c.currentId
          /\ ret' = Returns("create", c.id, Some(c.heap[c.id][c.addr]))
    /\ UNCHANGED << clock, eng, dirs, cleanupErrors, req, resp, setter, setterCalls,
                    polled, sanitized, browser, watch >>

\* getMigration(id); the caller keeps the object it is given.
StGet(id) ==
    /\ ret' = Returns("get", id, IF Found(id) THEN Some(Current(id)) ELSE None)
    /\ polled' = IF Found(id) THEN Some(Current(id)) ELSE polled
    /\ UNCHANGED << heap, migrations, currentId, clock, eng, dirs, cleanupErrors, req,
                    resp, setter, setterCalls, sanitized, browser, watch >>

\* getAllMigrations()
StGetAll ==
    /\ ret' = Returns("list", 0, Some(GetAllMigrations))
    /\ UNCHANGED << heap, migrations, currentId, clock, eng, dirs, cleanupErrors, req,
                    resp, setter, setterCalls, polled, sanitized, browser, watch >>

\* A mutator is called: it reads the record and is suspended, or throws.
StCall(kind, id, val) ==
    /\ setter = NoSetter
    /\ setterCalls < MaxStorageCalls
    /\ \/ kind = "status" /\ val \in StatusInputs
       \/ kind = "progress" /\ val \in ProgressInputs
       \/ kind = "error" /\ val \in ErrorInputs
    /\ IF Found(id)
       THEN /\ setter' = [ kind |-> kind, id |-> id, val |-> val,
                           rd |-> MapGet(migrations, id), hdr |-> NoHeaders ]
            /\ ret' = Returns(kind, id, None)
       ELSE /\ setter' = NoSetter
            /\ ret' = [ op |-> kind, id |-> id, ok |-> Missing.ok, value |-> None,
                        error |-> Missing.error.message ]
    /\ setterCalls' = setterCalls + 1
    /\ UNCHANGED << heap, migrations, currentId, clock, eng, dirs, cleanupErrors, req,
                    resp, polled, sanitized, browser, watch >>

\* The suspended mutator builds the replacement object, stores and returns it.
StWrite ==
    /\ MutatorResumes
    /\ setter.kind # "none"
    /\ LET updated == Updated(heap[setter.id][setter.rd], setter, clock[setter.id])
           c == Commit(heap, migrations, setter.id, setter.rd, updated)
       IN /\ heap' = c.heap
          /\ migrations' = c.migrations
          /\ ret' = Returns(setter.kind, setter.id, Some(updated))
    /\ clock' = IF setter.kind = "status" THEN [ clock EXCEPT ![setter.id] = @ + 1 ]
                ELSE clock
    /\ setter' = NoSetter
    /\ UNCHANGED << currentId, eng, dirs, cleanupErrors, req, resp, setterCalls, polled,
                    sanitized, browser, watch >>

\* -------------------------------------------------------- sanitizeRepoName
\* A name is the sequence of its characters.
Upper ==
    << "A", "B", "C", "D", "E", "F", "G", "H", "I", "J", "K", "L", "M", "N", "O", "P", "Q", "R", "S", "T", "U", "V", "W", "X", "Y", "Z" >>
Lower ==
    << "a", "b", "c", "d", "e", "f", "g", "h", "i", "j", "k", "l", "m", "n", "o", "p", "q", "r", "s", "t", "u", "v", "w", "x", "y", "z" >>
Digits == {"0", "1", "2", "3", "4", "5", "6", "7", "8", "9"}

\* String.prototype.toLowerCase, character by character.
LowerOf(c) ==
    IF \E i \in DOMAIN Upper : Upper[i] = c
    THEN Lower[CHOOSE i \in DOMAIN Upper : Upper[i] = c]
    ELSE c
ToLowerCase(n) == [ i \in DOMAIN n |-> LowerOf(n[i]) ]

\* .replace(/[^a-z0-9-_.]/g, '-')
Allowed(c) == c \in { Lower[i] : i \in DOMAIN Lower } \cup Digits \cup {"-", "_", "."}
ReplaceInvalid(n) == [ i \in DOMAIN n |-> IF Allowed(n[i]) THEN n[i] ELSE "-" ]

\* Variant: runs of dashes are left as they are.
CollapseDashes_None(n) == n

\* .replace(/-+/g, '-')
RECURSIVE CollapseDashes(_)
CollapseDashes(n) ==
    IF Len(n) <= 1 THEN n
    ELSE IF n[1] = "-" /\ n[2] = "-" THEN CollapseDashes(Tail(n))
    ELSE << n[1] >> \o CollapseDashes(Tail(n))

\* Variant: only a dash at the start is removed.
TrimDashes_LeadingOnly(n) == IF n # << >> /\ n[1] = "-" THEN Tail(n) ELSE n

\* .replace(/^-|-$/g, ''): one dash at the start and one at the end.
TrimDashes(n) ==
    LET a == IF n # << >> /\ n[1] = "-" THEN Tail(n) ELSE n
    IN IF a # << >> /\ a[Len(a)] = "-" THEN SubSeq(a, 1, Len(a) - 1) ELSE a

SanitizeRepoName(n) == TrimDashes(CollapseDashes(ReplaceInvalid(ToLowerCase(n))))

\* The names sanitizeRepoName is applied to: every name of up to MaxNameLen
\* characters over Alphabet, and two longer ones.
Alphabet == {"a", "F", "7", "-", "_", " ", "!"}
NamesUpTo(k) == UNION { [ 1 .. m -> Alphabet ] : m \in 0 .. k }
MyRepo == << "M", "y", " ", "R", "e", "p", "o", "!", "!" >>
DashFoo == << "-", "-", "F", "o", "o", "-", "-" >>
Names == NamesUpTo(MaxNameLen) \cup {MyRepo, DashFoo}

InitSanitize ==
    /\ Idle
    /\ sanitized \in { [ name |-> n, once |-> None, twice |-> None ] : n \in Names }

\* sanitizeRepoName(name)
SanitizeOnce ==
    /\ IsNull(sanitized.once)
    /\ sanitized' = [ sanitized EXCEPT !.once = Some(SanitizeRepoName(sanitized.name)) ]
    /\ UNCHANGED << heap, migrations, currentId, clock, eng, dirs, cleanupErrors, req,
                    resp, setter, setterCalls, polled, ret, browser, watch >>

\* sanitizeRepoName(sanitizeRepoName(name))
SanitizeTwice ==
    /\ ~IsNull(sanitized.once)
    /\ IsNull(sanitized.twice)
    /\ sanitized' = [ sanitized EXCEPT !.twice = Some(SanitizeRepoName(Val(sanitized.once))) ]
    /\ UNCHANGED << heap, migrations, currentId, clock, eng, dirs, cleanupErrors, req,
                    resp, setter, setterCalls, polled, ret, browser, watch >>

\* ------------------------------------------------------------ sessionStorage
SetItem(s, k, v) == [ s EXCEPT ![k] = Some(v) ]
RemoveItem(s, k) == [ s EXCEPT ![k] = None ]

\* ------------------------------------------------------------- Home.onSubmit
\* The form's values and the session tokens issued for them are told apart
\* by the number n of the submission they belong to.

\* What a validation request can end with: the route answers 200 with a
\* session token, it answers with an error status, or the fetch itself fails.
ValidateOutcomes == {"valid", "rejected", "network"}

\* catch (error) of onSubmit: the three raw items are removed.
ClearTokens(s) ==
    RemoveItem(RemoveItem(RemoveItem(s, "azure_token"), "azure_organization"),
               "github_token")

\* "Store tokens in session storage"
StoreTokens(s, n) ==
    SetItem(SetItem(SetItem(s, "azure_token", n), "azure_organization", n),
            "github_token", n)

\* onSubmit(data) up to the first await: validateAzurePAT has sent its request.
Submit ==
    /\ connect.pc = "idle"
    /\ connects < MaxConnects
    /\ connects' = connects + 1
    /\ connect' = [ pc |-> "azure", n |-> connects + 1, outcome |-> "" ]
    /\ UNCHANGED << heap, migrations, currentId, clock, eng, dirs, cleanupErrors, req,
                    resp, setter, setterCalls, polled, ret, sanitized, session, cr, sent, watch >>

\* validateAzurePAT settles; on success validateGitHubPAT sends its request.
AzureValidated(out) ==
    /\ connect.pc = "azure"
    /\ IF out = "valid"
       THEN /\ session' = SetItem(session, "azure_session_token", connect.n)
            /\ connect' = [ connect EXCEPT !.pc = "github" ]
       ELSE /\ session' = ClearTokens(session)
            /\ connect' = [ connect EXCEPT !.pc = "idle", !.outcome = "failed" ]
    /\ UNCHANGED << heap, migrations, currentId, clock, eng, dirs, cleanupErrors, req,
                    resp, setter, setterCalls, polled, ret, sanitized, connects, cr, sent, watch >>

\* validateGitHubPAT settles; on success the raw items are stored.
GitHubValidated(out) ==
    /\ connect.pc = "github"
    /\ IF out = "valid"
       THEN /\ session' = StoreTokens(SetItem(session, "github_session_token", connect.n),
                                      connect.n)
            /\ connect' = [ connect EXCEPT !.pc = "idle", !.outcome = "connected" ]
       ELSE /\ session' = ClearTokens(session)
            /\ connect' = [ connect EXCEPT !.pc = "idle", !.outcome = "failed" ]
    /\ UNCHANGED << heap, migrations, currentId, clock, eng, dirs, cleanupErrors, req,
                    resp, setter, setterCalls, polled, ret, sanitized, connects, cr, sent, watch >>

\* ---------------------------------------------------- createGitHubRepository
maxRetries == 3

\* What fetch settles with: a response (its body parsed by response.json(),
\* or not parsable), a TimeoutError of AbortSignal.timeout, or a network error.
Json(error, message, repo) ==
    [ parses |-> TRUE, error |-> error, message |-> message, repo |-> repo ]
NotJson == [ parses |-> FALSE, error |-> None, message |-> None, repo |-> None ]
Reply(status, body) == [ kind |-> "response", status |-> status, body |-> body ]
TimedOut == [ kind |-> "timeout", status |-> 0, body |-> NotJson ]
NetworkError == [ kind |-> "network", status |-> 0, body |-> NotJson ]
IsOk(reply) == reply.kind = "response" /\ reply.status \in 200 .. 299

\* errorData.error || errorData.message || `... (HTTP ${response.status})`,
\* and the catch around it: `Failed to create repository: ${statusText}`.
CreateErrorMessage(reply) ==
    IF ~reply.body.parses
    THEN << "Failed to create repository: ", reply.status >>
    ELSE IF Truthy(reply.body.error) THEN Val(reply.body.error)
    ELSE IF Truthy(reply.body.message) THEN Val(reply.body.message)
    ELSE << "Failed to create repository (HTTP ", reply.status, ")" >>

\* Variant: every 5xx status is retried.
Transient_Any5xx(status) == status \in 500 .. 599

\* response.status === 502 || response.status === 503 || response.status === 504
Transient(status) == status \in {502, 503, 504}

\* response.status === 422 && errorData.message?.includes('already exists')
SaysExists(reply) ==
    /\ reply.status = 422
    /\ ~IsNull(reply.body.message)
    /\ Contains(Val(reply.body.message), "already exists")

CreateRequest(c) == [ kind |-> "create", name |-> c.name, attempt |-> c.attempt ]
ExistingRequest(c) == [ kind |-> "existing", name |-> c.name, attempt |-> c.attempt ]

\* return data / throw new Error(message): the call is over.
CrReturn(c, repo) == [ c EXCEPT !.pc = "returned", !.result = Some(repo) ]
CrThrow(c, message) == [ c EXCEPT !.pc = "thrown", !.result = Some(message) ]

CrRunning == cr.pc \in {"wait", "backoff", "existing"}

\* createGitHubRepository(token, owner, name, isPrivate) up to its first await.
CrCall(name) ==
    /\ ~CrRunning
    /\ IF IsNull(session["github_session_token"])
       THEN /\ cr' = CrThrow(NoCall, Text("GitHub session token is required"))
            /\ sent' = << >>
       ELSE LET c == [ NoCall EXCEPT !.pc = "wait", !.attempt = 1,
                                     !.name = SanitizeRepoName(name) ]
            IN /\ cr' = c
               /\ sent' = << CreateRequest(c) >>
    /\ UNCHANGED << heap, migrations, currentId, clock, eng, dirs, cleanupErrors, req,
                    resp, setter, setterCalls, polled, ret, sanitized, session, connect,
                    connects, watch >>

\* The creation request of this attempt settles with reply; host is what the
\* target host had answered to the route, "" when the route did not ask it.
CrAnswered(reply, host) ==
    /\ cr.pc = "wait"
    /\ LET c == [ cr EXCEPT !.host = host, !.replies = Append(@, reply) ]
           again == [ c EXCEPT !.attempt = @ + 1, !.pc = "wait" ]
       IN
       IF reply.kind = "timeout"
       THEN LET e == Text("Request timed out while creating repository")
            IN IF c.attempt = maxRetries
               THEN /\ cr' = CrThrow([ c EXCEPT !.lastError = Some(e) ], e)
                    /\ sent' = sent
               ELSE /\ cr' = [ again EXCEPT !.lastError = Some(e) ]
                    /\ sent' = Append(sent, CreateRequest(again))
       ELSE IF reply.kind = "network"
       THEN /\ cr' = CrThrow(c, Text("Failed to fetch"))
            /\ sent' = sent
       ELSE IF IsOk(reply)
       THEN /\ cr' = IF reply.body.parses
                     THEN CrReturn(c, reply.body)
                     ELSE CrThrow(c, Text("Invalid response from GitHub API"))
            /\ sent' = sent
       ELSE IF reply.body.parses /\ SaysExists(reply)
       THEN /\ cr' = [ c EXCEPT !.pc = "existing", !.errorData = Some(reply) ]
            /\ sent' = Append(sent, ExistingRequest(c))
       ELSE LET e == CreateErrorMessage(reply)
            IN /\ cr' = IF ~Transient(reply.status) THEN CrThrow(c, e)
                        ELSE IF c.attempt = maxRetries
                        THEN CrThrow([ c EXCEPT !.lastError = Some(e) ], e)
                        ELSE [ c EXCEPT !.pc = "backoff", !.lastError = Some(e) ]
               /\ sent' = sent
    /\ UNCHANGED << heap, migrations, currentId, clock, eng, dirs, cleanupErrors, req,
                    resp, setter, setterCalls, polled, ret, sanitized, session, connect,
                    connects, watch >>

\* setTimeout(resolve, attempt * 1000) fires: the loop goes on.
CrBackoffDone ==
    /\ cr.pc = "backoff"
    /\ LET again == [ cr EXCEPT !.attempt = @ + 1, !.pc = "wait" ]
       IN /\ cr' = again
          /\ sent' = Append(sent, CreateRequest(again))
    /\ UNCHANGED << heap, migrations, currentId, clock, eng, dirs, cleanupErrors, req,
                    resp, setter, setterCalls, polled, ret, sanitized, session, connect,
                    connects, watch >>

\* The fetch of the existing repository settles with reply.
CrExistingAnswered(reply) ==
    /\ cr.pc = "existing"
    /\ cr' = IF IsOk(reply) /\ reply.body.parses
             THEN CrReturn(cr, reply.body)
             ELSE IF reply.kind = "response" /\ ~IsOk(reply)
             THEN CrThrow(cr, CreateErrorMessage(Val(cr.errorData)))
             ELSE CrThrow(cr, CreateErrorMessage([ Val(cr.errorData) EXCEPT !.body = NotJson ]))
    /\ UNCHANGED << heap, migrations, currentId, clock, eng, dirs, cleanupErrors, req,
                    resp, setter, setterCalls, polled, ret, sanitized, session, connect,
                    connects, sent, watch >>

\* --------------------------- POST /api/github/{organizations/:org,user}/repositories
\* What https://api.github.com can answer to the route's creation call.
HostOutcomes ==
    CreateOutcomes
    \cup { Fail(Err(Response(422, Some(<< "name ", "already exists", " on this account" >>),
                             "already_exists"),
                    Text("Request failed with status code 422"))) }
    \cup { Fail(Err(Response(s, None, "unavailable"),
                    << "Request failed with status code ", s >>)) : s \in {502, 503, 504} }

HostSaid(h) ==
    IF h.ok THEN "created"
    ELSE IF IsNull(h.error.response) THEN "no_response"
    ELSE Val(h.error.response).reason

\* { error: error.response?.data?.message || "Failed to create GitHub repository" }
ProxyError(e) ==
    Json(Some(IF ~IsNull(e.response) /\ Truthy(Val(e.response).message)
              THEN Val(Val(e.response).message)
              ELSE Text("Failed to create GitHub repository")),
         None, None)

\* The route's answer to a creation request for name: way is how far the
\* request gets ("bad_session": validateGitHubToken rejects the session
\* token; "decrypt_throws": decrypt fails; "host": the host is asked and
\* answers h).
ProxyCreate(name, way, h) ==
    CASE way = "bad_session" ->
           Reply(401, Json(Some(Text("Invalid or expired GitHub session token")), None, None))
      [] way = "decrypt_throws" ->
           Reply(500, Json(Some(Text("Internal server error")), None, None))
      [] name = << >> ->
           Reply(400, Json(Some(Text("Repository name is required")), None, None))
      [] h.ok -> Reply(200, Json(None, None, Some(name)))
      [] OTHER ->
           Reply(IF IsNull(h.error.response) THEN 500 ELSE Val(h.error.response).status,
                 ProxyError(h.error))

AskedHost(name, way) == way = "host" /\ name # << >>

\* ------------------------------------------------------------ MigrationStatus
\* Both session tokens are in sessionStorage.
HasSessionTokens ==
    ~IsNull(session["azure_session_token"]) /\ ~IsNull(session["github_session_token"])

\* The tab after a submission of the credentials form has succeeded.
Connected ==
    /\ session = StoreTokens(SetItem(SetItem(NoSession, "azure_session_token", 1),
                                     "github_session_token", 1), 1)
    /\ connect = [ pc |-> "idle", n |-> 1, outcome |-> "connected" ]
    /\ connects = 1

\* enabled: migration.status === "in_progress" || migration.status === "pending",
\* migration being the component's prop.
QueryEnabled(w) ==
    /\ ~IsNull(w.migration)
    /\ Val(w.migration).status \in {"in_progress", "pending"}

\* currentMigration = updatedMigration || migration
CurrentMigration(w) == IF ~IsNull(w.data) THEN w.data ELSE w.migration

\* The answer to POST /api/migrations arrives: migrationMutation.data is the
\* record in it, and Migration renders MigrationStatus with it as the prop.
Mount ==
    /\ HasSessionTokens
    /\ resp.route = "create"
    /\ resp.code = 200
    /\ watch' = [ migration |-> resp.body, data |-> None, polls |-> watch.polls ]
    /\ UNCHANGED << heap, migrations, currentId, clock, eng, dirs, cleanupErrors, req,
                    resp, setter, setterCalls, polled, ret, sanitized, browser >>

\* The query fetches (on mount, and every refetchInterval after): queryFn
\* sends GET /api/migrations/:id and the answer becomes the query's data.
Refetch ==
    /\ QueryEnabled(watch)
    /\ HasSessionTokens
    /\ watch.polls < MaxPolls
    /\ PollRoute(SessionHeaders, Val(watch.migration).id)
    /\ watch' = [ watch EXCEPT !.polls = @ + 1,
                               !.data = IF resp'.code = 200 THEN resp'.body ELSE @ ]

\* ------------------------------------------ the names migrateRepository uses
\* The characters of the repository names of MigrationData.
Spelled(name) ==
    CASE name = "Repo A" -> << "R", "e", "p", "o", " ", "A" >>
      [] name = "Repo B" -> << "R", "e", "p", "o", " ", "B" >>
      [] OTHER -> << "R", "e", "p", "o", " ", "C" >>

\* const [owner, sourceRepo] = migration.sourceRepo.split('/').slice(-2)
SourceName(m) == m.sourceRepo[Len(m.sourceRepo)]

\* const sanitizedRepoName = await sanitizeRepoName(sourceRepo)
SanitizedRepoName(m) == SanitizeRepoName(Spelled(SourceName(m)))

\* The body of the creation call: name is migration.targetRepo.split('/')[1].
CreateBody(m) == [ name |-> m.targetRepo[2], private |-> FALSE, auto_init |-> FALSE ]

\* The repository of `https://${githubToken}@github.com/${migration.targetRepo}.git`.
PushTarget(m) == m.targetRepo[Len(m.targetRepo)]

\* ------------------------------------------------------------ specification
EngineStep ==
    \E id \in Ids :
        \/ EngRead(id)
        \/ EngWrite(id)
        \/ EngBegin(id)
        \/ \E out \in SyncOutcomes(eng[id].pc, Argument(id)) : EngEnd(id, out)
        \/ EngSend(id)
        \/ \E out \in CreateOutcomes : EngResponse(id, out)

CreateStep ==
    \/ \E k \in 1 .. MaxMigrations :
         \E o \in {"ok", "decrypt_throws", "no_organization"} : PostMigrations(k, o)
    \/ \E i \in DOMAIN req.slots : \E ok \in BOOLEAN : FetchDone(i, ok)
    \/ \E i \in DOMAIN req.slots : StartEngine(i)
    \/ Respond

PollStep == (\E id \in Ids : Poll(id)) \/ List

SetterStep ==
    \/ \E id \in Ids : \E val \in ProgressInputs : SetterRequest("progress", id, val)
    \/ \E id \in Ids : \E val \in ErrorInputs : SetterRequest("error", id, val)
    \/ SetterWrite

Next == CreateStep \/ EngineStep \/ PollStep \/ SetterStep

Spec == Init /\ [][Next]_vars

\* Creation requests and the transfers they start, with no other client.
NextEngine == CreateStep \/ EngineStep

SpecEngine == Init /\ [][NextEngine]_vars

\* The same when the runtime runs every pending continuation and every
\* blocking call and every creation call of a run returns or fails.
SpecEngineFair ==
    /\ SpecEngine
    /\ WF_vars(EngineStep)
    /\ WF_vars(\E i \in DOMAIN req.slots : StartEngine(i))
    /\ WF_vars(Respond)

\* Any client: every migration route called with every combination of what
\* the two session-token headers can hold, by a caller who lets the
\* transfers that were started finish before calling again.
\* One request per way through validateBothTokens: the Authorization
\* header missing, the X-GitHub-Token header missing, a token that does not
\* verify, and the three pairs of verifying tokens.
HeaderInputs ==
    { [ authorization |-> "none", xgithub |-> "github" ],
      [ authorization |-> "azure", xgithub |-> "none" ],
      [ authorization |-> "azure", xgithub |-> "invalid" ],
      SessionHeaders,
      GitHubTwice,
      [ authorization |-> "azure", xgithub |-> "azure" ] }

AuthStep ==
    \/ \E h \in HeaderInputs : \E k \in 1 .. MaxMigrations :
         \E o \in {"ok", "decrypt_throws", "no_organization"} : PostMigrationsRoute(h, k, o)
    \/ \E h \in HeaderInputs : \E id \in Ids : PollRoute(h, id) /\ UNCHANGED watch
    \/ \E h \in HeaderInputs : ListRoute(h)
    \/ \E h \in HeaderInputs : \E id \in Ids : \E val \in ProgressInputs :
         SetterRoute(h, "progress", id, val)
    \/ \E h \in HeaderInputs : \E id \in Ids : \E val \in ErrorInputs :
         SetterRoute(h, "error", id, val)

NextAuth ==
    \/ (\A id \in Ids : eng[id].pc \in {"none", "done"}) /\ AuthStep
    \/ \E i \in DOMAIN req.slots : \E ok \in BOOLEAN : FetchDone(i, ok)
    \/ \E i \in DOMAIN req.slots : StartEngine(i)
    \/ Respond
    \/ SetterWrite
    \/ EngineStep

SpecAuth == Init /\ [][NextAuth]_vars

\* The same with a client polling, and without the administrative setters.
NextPoll == CreateStep \/ EngineStep \/ PollStep

SpecPoll == Init /\ [][NextPoll]_vars

\* The registry alone, under direct calls of its methods.
NextStorage ==
    \/ StCreate
    \/ \E id \in Ids : StGet(id)
    \/ StGetAll
    \/ \E id \in Ids : \E val \in StatusInputs : StCall("status", id, val)
    \/ \E id \in Ids : \E val \in ProgressInputs : StCall("progress", id, val)
    \/ \E id \in Ids : \E val \in ErrorInputs : StCall("error", id, val)
    \/ StWrite

SpecStorage == Init /\ [][NextStorage]_vars

\* sanitizeRepoName alone, applied to each name.
NextSanitize == SanitizeOnce \/ SanitizeTwice

SpecSanitize == InitSanitize /\ [][NextSanitize]_vars

\* The credentials form.
ConnectStep ==
    \/ Submit
    \/ \E out \in ValidateOutcomes : AzureValidated(out)
    \/ \E out \in ValidateOutcomes : GitHubValidated(out)

\* The names createGitHubRepository is called with.
RepoInputs == {MyRepo, << "!" >>}

\* A creation request settles: the route answers it, the 30 s of
\* AbortSignal.timeout pass first, or the connection fails.
CrSettles ==
    \/ \E way \in {"bad_session", "decrypt_throws", "host"} : \E h \in HostOutcomes :
         CrAnswered(ProxyCreate(cr.name, way, h),
                    IF AskedHost(cr.name, way) THEN HostSaid(h) ELSE "")
    \/ CrAnswered(TimedOut, "")
    \/ CrAnswered(NetworkError, "")
    \/ CrBackoffDone

\* The browser tab against the server's routes: the credentials form and
\* createGitHubRepository. (No reply of the route carries `message`, so the
\* fetch of the existing repository is never sent.)
NextBrowser ==
    \/ ConnectStep
    \/ \E name \in RepoInputs : CrCall(name)
    \/ CrSettles

SpecBrowser == Init /\ [][NextBrowser]_vars

\* Every request the browser sends settles, and every timer fires.
SpecBrowserFair == SpecBrowser /\ WF_vars(CrSettles)

\* The Migration page of a connected tab: creation requests, the transfers
\* they start, and MigrationStatus polling.
InitWatch ==
    /\ ServerIdle
    /\ sanitized = NoName
    /\ Connected
    /\ cr = NoCall
    /\ sent = << >>
    /\ watch = NoWatch

WatchStep == Mount \/ Refetch

NextWatch == CreateStep \/ EngineStep \/ WatchStep

SpecWatch == InitWatch /\ [][NextWatch]_vars

\* ------------------------------------------------------------------ claims
\* How the target host answered the creation call of run e, "" before it did.
CreateAnswer(e) ==
    IF IsNull(e.createOut) THEN ""
    ELSE IF Val(e.createOut).ok THEN "created"
    ELSE IF IsNull(Val(e.createOut).error.response) THEN "no_response"
    ELSE Val(Val(e.createOut).error.response).reason

\* C1: a GET /api/migrations/:id served while migrateRepository updates the
\* record never returns a record with status failed and error null, nor one
\* with status completed and progress other than 100.
C1_PollNeverHalfCommitted ==
    ~IsNull(polled) =>
        /\ ~(Val(polled).status = "failed" /\ IsNull(Val(polled).error))
        /\ ~(Val(polled).status = "completed" /\ Val(polled).progress # 100)

\* A poll answered with a failed record while another transfer is under way.
C1_Witness ==
    /\ ~IsNull(polled)
    /\ Val(polled).status = "failed"
    /\ \E id \in Ids : eng[id].phase = "wait"

\* C2 (as claimed): in every reachable state every record has error # null
\* exactly when its status is failed.
C2_ErrorIffFailed ==
    \A id \in Keys(migrations) :
        (~IsNull(Current(id).error)) <=> (Current(id).status = "failed")

\* C3 (as claimed): two successive polls of one identifier that both return
\* status in_progress never show progress going down.
C3_PolledProgressMonotone ==
    [][ (/\ ~IsNull(polled) /\ ~IsNull(polled')
         /\ Val(polled).id = Val(polled').id
         /\ Val(polled).status = "in_progress"
         /\ Val(polled').status = "in_progress")
        => Val(polled').progress >= Val(polled).progress ]_vars

\* C4 (as claimed): once a record's status is terminal, no step changes its
\* progress or its error.
C4_TerminalStable ==
    [][ \A id \in Keys(migrations) :
          Current(id).status \in Terminal =>
              /\ Current(id)'.progress = Current(id).progress
              /\ Current(id)'.error = Current(id).error ]_vars

\* C5: the record createMigration returns to the create route is pending,
\* has progress 0 and no error, and its identifier is new: no object was built
\* for it before and every identifier issued before is smaller.
C5_CreatedRecordFresh ==
    \A i \in DOMAIN req.slots :
        req.slots[i].st = "created" =>
            LET m == heap[req.slots[i].id][req.slots[i].addr]
            IN /\ m.status = "pending"
               /\ m.progress = 0
               /\ IsNull(m.error)
               /\ m.id = req.slots[i].id
               /\ req.slots[i].addr = 1
               /\ \A j \in Ids : (j # m.id /\ heap[j] # << >>) => j < m.id

\* createMigration has returned the second record of a behaviour.
C5_Witness ==
    \E i \in DOMAIN req.slots : req.slots[i].st = "created" /\ req.slots[i].id = 2

\* C6: the record in the 200 response of the create route is pending, with
\* progress 0 and no startedAt, under the identifier the registry keeps it
\* by, whatever steps the started transfers took before the response.
C6_ResponseIsPending ==
    (resp.route = "create" /\ resp.code = 200) =>
        LET b == Val(resp.body)
        IN /\ b.status = "pending"
           /\ b.progress = 0
           /\ IsNull(b.startedAt)
           /\ Found(b.id)
           /\ Current(b.id).id = b.id
           /\ Current(b.id).sourceRepo = b.sourceRepo

\* The response is written after the transfer of its record has finished.
C6_Witness ==
    /\ resp.route = "create"
    /\ resp.code = 200
    /\ Current(Val(resp.body).id).status \in {"completed", "failed"}

\* C7 (as claimed): every workspace directory that exists belongs to a run
\* that has not finished.
C7_NoOrphanWorkspace ==
    \A d \in dirs : \E id \in Ids : Running(id) /\ eng[id].tempDir = Some(d)

\* C7 (amended): every workspace directory that exists belongs to a run that
\* has not finished, or its removal was attempted, failed and was logged.
C7_NoOrphanUnlessRemovalFailed ==
    \A d \in dirs \ cleanupErrors :
        \E id \in Ids : Running(id) /\ eng[id].tempDir = Some(d)

\* A run that failed after creating its workspace has finished and nothing
\* is left of the workspace.
C7_Witness ==
    \E id \in Ids :
        /\ eng[id].pc = "done"
        /\ Current(id).status = "failed"
        /\ Current(id).progress = 40
        /\ dirs = {}

\* C8: when a stage has thrown, control is in the catch or finally block and
\* never back in the stages; when the catch block is through, the record is
\* failed and its error is the non-empty text chosen from the thrown value
\* (the response's message, else the exception's, else "Migration failed");
\* nothing is raised out of migrateRepository.
C8_FatalErrorCommitted ==
    \A id \in Ids :
        /\ ~eng[id].escaped
        /\ ~IsNull(eng[id].err) =>
              /\ eng[id].pc \in {"status_failed", "set_error", "cleanup"}
              /\ eng[id].pc = "cleanup" =>
                    LET x == Val(eng[id].err)
                        hasResponseMessage ==
                            /\ ~IsNull(x.response)
                            /\ ~IsNull(Val(x.response).message)
                            /\ Val(Val(x.response).message) # << >>
                    IN /\ Current(id).status = "failed"
                       /\ ~IsNull(Current(id).error)
                       /\ Val(Current(id).error) # << >>
                       /\ hasResponseMessage =>
                             Current(id).error = Val(x.response).message
                       /\ (~hasResponseMessage /\ x.message # << >>) =>
                             Val(Current(id).error) = x.message
                       /\ (~hasResponseMessage /\ x.message = << >>) =>
                             Val(Current(id).error) = Text("Migration failed")

\* The catch block has committed the message of a rejecting host response.
C8_Witness ==
    \E id \in Ids :
        /\ eng[id].pc = "cleanup"
        /\ eng[id].failedAt = "create"
        /\ Current(id).error = Some(Text("Bad credentials"))

\* C9: a run whose creation call succeeded or was answered "already exists",
\* and whose re-point and push did not fail, commits status completed.
C9_ExistingTargetCompletes ==
    \A id \in Ids :
        (/\ eng[id].pc = "cleanup"
         /\ CreateAnswer(eng[id]) \in {"created", "already_exists"}
         /\ eng[id].failedAt \notin {"seturl", "push"})
        => Current(id).status = "completed"

\* A run whose creation call was answered "already exists" has completed.
C9_Witness ==
    \E id \in Ids :
        /\ eng[id].pc = "cleanup"
        /\ CreateAnswer(eng[id]) = "already_exists"
        /\ Current(id).status = "completed"

\* C10 (as claimed): after a creation call that failed for another reason
\* than "already exists", the run is in its catch or finally block and has
\* attempted neither the re-point nor the push.
C10_OtherCreateFailureFatal ==
    \A id \in Ids :
        CreateAnswer(eng[id]) \notin {"", "created", "already_exists"}
        => /\ eng[id].pc \in {"status_failed", "set_error", "cleanup"}
           /\ \A n \in DOMAIN eng[id].calls : eng[id].calls[n] \notin {"seturl", "push"}

\* What holds of every step of a run whose clone has failed; removed says
\* what is required of the workspace d in the state the run returns to.
CloneFailureStep(id, removed(_)) ==
    eng[id].failedAt = "clone" =>
        /\ \A n \in DOMAIN eng[id].calls : eng[id].calls[n] \notin {"create", "seturl", "push"}
        /\ Current(id).progress = 40
        /\ Current(id)'.progress = 40
        /\ Current(id)'.status # Current(id).status =>
              Current(id).status = "in_progress" /\ Current(id)'.status = "failed"
        /\ eng'[id].pc = "done" =>
              /\ Current(id)'.status = "failed"
              /\ removed(Val(eng[id].tempDir))

\* C11 (as claimed): after a failed clone the record goes from in_progress
\* straight to failed with progress still 40, neither the creation call nor
\* the re-point nor the push is made, and the workspace is gone when the run
\* returns.
C11_CloneFailure ==
    [][ \A id \in Ids : LET Gone(d) == d \notin dirs'
                         IN CloneFailureStep(id, Gone) ]_vars

\* C11 (amended): the same, the workspace being gone when the run returns
\* unless its removal failed and was logged.
C11_CloneFailureBestEffort ==
    [][ \A id \in Ids : LET GoneOrLogged(d) == d \notin dirs' \/ d \in cleanupErrors'
                         IN CloneFailureStep(id, GoneOrLogged) ]_vars

\* A run whose clone failed has returned: the record is failed at progress
\* 40 with the clone's error and no workspace is left.
C11_Witness ==
    \E id \in Ids :
        /\ eng[id].pc = "done"
        /\ Current(id).status = "failed"
        /\ Current(id).progress = 40
        /\ ~IsNull(Current(id).error)
        /\ Val(Current(id).error) = ExecError(CommandLine("clone", Current(id))).message
        /\ dirs = {}

\* C12 (as claimed): while the clone or the push of one run is running and
\* nothing else is queued before it, a status read of that record that has
\* arrived can be served.
C12_ReadServedDuringTransfer ==
    \A id \in Ids :
        (/\ eng[id].phase = "busy"
         /\ eng[id].pc \in {"clone", "push"}
         /\ ~MicroPending)
        => ENABLED Poll(id)

\* C13: in every state a record has startedAt set exactly when its status
\* is in_progress or terminal; no step takes a record back to pending, and no
\* step changes a startedAt that is set.
C13_StartedAtOnce ==
    /\ [](\A id \in Keys(migrations) :
             (~IsNull(Current(id).startedAt))
                 <=> (Current(id).status \in {"in_progress"} \cup Terminal))
    /\ [][ \A id \in Keys(migrations) :
             /\ Current(id).status # "pending" => Current(id)'.status # "pending"
             /\ ~IsNull(Current(id).startedAt) =>
                   Current(id)'.startedAt = Current(id).startedAt ]_vars

\* A completed record keeps the startedAt stamped when it became in_progress.
C13_Witness ==
    \E id \in Keys(migrations) :
        /\ Current(id).status = "completed"
        /\ Current(id).startedAt = Some(1)
        /\ Current(id).completedAt = Some(2)

\* C14 (as claimed): completedAt becomes set only by a step that leaves the
\* status completed, and once set no later call of updateMigrationStatus
\* changes it.
C14_CompletedAtOnce ==
    [][ \A id \in Keys(migrations) :
          /\ (IsNull(Current(id).completedAt) /\ ~IsNull(Current(id)'.completedAt))
                => Current(id)'.status = "completed"
          /\ ~IsNull(Current(id).completedAt)
                => Current(id)'.completedAt = Current(id).completedAt ]_vars

\* C15 (as claimed): the error text committed to a record contains neither
\* the decrypted source secret nor the decrypted target secret.
C15_NoSecretInError ==
    \A id \in Keys(migrations) :
        ~IsNull(Current(id).error) =>
            /\ ~Contains(Val(Current(id).error), Decrypt(Current(id).azureToken))
            /\ ~Contains(Val(Current(id).error), Decrypt(Current(id).githubToken))

\* The records a response carries across the system boundary.
Views(r) ==
    IF r.code # 200 THEN {}
    ELSE IF r.route = "list" THEN { Val(r.body)[i] : i \in DOMAIN Val(r.body) }
    ELSE { Val(r.body) }

\* C16 (as claimed): no record in a response of the create, get, list or
\* direct setter routes has a credential field.
C16_NoCredentialInViews ==
    \A v \in Views(resp) : DOMAIN v \cap {"azureToken", "githubToken"} = {}

\* C17: two runs that hold workspaces at the same time hold different ones;
\* a step of one run changes neither the objects built for another record,
\* nor which of them is current, nor whether the other run's workspace
\* exists.
C17_RunsIndependent ==
    /\ [](\A a, b \in Ids :
             (a # b /\ Running(a) /\ Running(b)
              /\ ~IsNull(eng[a].tempDir) /\ ~IsNull(eng[b].tempDir))
             => eng[a].tempDir # eng[b].tempDir)
    /\ [][ \A a, b \in Ids :
             (a # b /\ eng'[a] # eng[a]) =>
                 /\ heap'[b] = heap[b]
                 /\ Found(b) => (Found(b)' /\ Current(b)' = Current(b))
                 /\ ~IsNull(eng[b].tempDir) =>
                       (Val(eng[b].tempDir) \in dirs' <=> Val(eng[b].tempDir) \in dirs) ]_vars

\* One run has failed and returned, removing its workspace; the other has
\* completed in a workspace it created while the first one's existed (its
\* path is the second free one) and which is the only one left.
C17_Witness ==
    \E a, b \in Ids :
        /\ a # b
        /\ eng[a].pc = "done"
        /\ Current(a).status = "failed"
        /\ Running(b)
        /\ Current(b).status = "completed"
        /\ eng[b].tempDir = Some(2)
        /\ dirs = {2}
        /\ cleanupErrors = {}

\* C18: a status, progress or error mutator called with an identifier the
\* registry does not hold throws "Migration not found", changes nothing in
\* the registry and leaves no call pending; getMigration with such an
\* identifier returns undefined and changes nothing.
C18_UnknownIdNotFound ==
    [][ (ret' # ret /\ ~Found(ret'.id)) =>
          /\ ret'.op \in {"status", "progress", "error"} =>
                /\ ~ret'.ok
                /\ ret'.error = Text("Migration not found")
                /\ IsNull(ret'.value)
                /\ setter' = NoSetter
                /\ UNCHANGED << heap, migrations, currentId, clock >>
          /\ ret'.op = "get" =>
                /\ ret'.ok
                /\ IsNull(ret'.value)
                /\ UNCHANGED << heap, migrations, currentId, clock >> ]_vars

\* updateMigrationStatus has thrown for identifier 2 while the registry
\* holds record 1, completed.
C18_Witness ==
    /\ ret.op = "status"
    /\ ret.id = 2
    /\ ~ret.ok
    /\ ~Found(2)
    /\ Found(1)
    /\ Current(1).status = "completed"

\* C19: getAllMigrations returns one element per record ever created, in
\* ascending order of identifier, each the record's current object.
C19_ListAllInCreationOrder ==
    [][ (ret' # ret /\ ret'.op = "list") =>
          LET all == Val(ret'.value)
          IN /\ Len(all) = currentId' - 1
             /\ \A i \in DOMAIN all : all[i].id = i /\ all[i] = Current(i)' ]_vars

\* The list of two records, returned after the first was updated twice.
C19_Witness ==
    /\ ret.op = "list"
    /\ Len(Val(ret.value)) = 2
    /\ Len(heap[1]) = 3
    /\ Val(ret.value)[1] = heap[1][3]
    /\ Val(ret.value)[2].id = 2

\* C20: sanitizeRepoName applied to its own result returns that result;
\* "My Repo!!" gives "my-repo" and "--Foo--" gives "foo".
C20_SanitizeIdempotent ==
    /\ ~IsNull(sanitized.twice) => sanitized.twice = sanitized.once
    /\ (sanitized.name = MyRepo /\ ~IsNull(sanitized.once)) =>
          Val(sanitized.once) = << "m", "y", "-", "r", "e", "p", "o" >>
    /\ (sanitized.name = DashFoo /\ ~IsNull(sanitized.once)) =>
          Val(sanitized.once) = << "f", "o", "o" >>

\* A name that sanitizeRepoName changes in every step has gone through twice.
C20_Witness ==
    /\ sanitized.name = << " ", "F", "!" >>
    /\ sanitized.once = Some(<< "f" >>)
    /\ sanitized.twice = Some(<< "f" >>)

\* C21 (as claimed): every repository a create request names gets a record
\* (no request has one repository left without a record next to another with
\* one); a run exists for exactly the identifiers whose record was handed to
\* migrateRepository, and a run that has started is never started again.
C21_OneRecordOneRun ==
    /\ [](\A i, j \in DOMAIN req.slots :
             ~(req.slots[i].st = "failed" /\ req.slots[j].st \in {"created", "started"}))
    /\ [](\A id \in Ids : eng[id].pc # "none" => Found(id))
    /\ [](\A i \in DOMAIN req.slots :
             req.slots[i].st = "started" => eng[req.slots[i].id].pc # "none")
    /\ [][ \A id \in Ids :
             (eng[id].pc # "none" /\ eng'[id] # eng[id]) =>
                 eng'[id].pc # "status_in_progress" ]_vars

\* C22 (as claimed): every record's progress is between 0 and 100, and is
\* 100 when the record is completed.
C22_ProgressInRange ==
    \A id \in Keys(migrations) :
        /\ Current(id).progress \in 0 .. 100
        /\ Current(id).status = "completed" => Current(id).progress = 100

\* C23: no record is ever cancelled, and a record's status changes only
\* from pending to in_progress and from in_progress to completed or failed.
C23_StatusPath ==
    /\ [](\A id \in Keys(migrations) : Current(id).status # "cancelled")
    /\ [][ \A id \in Keys(migrations) :
             Current(id)'.status # Current(id).status =>
                 \/ Current(id).status = "pending" /\ Current(id)'.status = "in_progress"
                 \/ /\ Current(id).status = "in_progress"
                    /\ Current(id)'.status \in {"completed", "failed"} ]_vars

\* One record has completed and another has failed, after a direct setter
\* call.
C23_Witness ==
    /\ setterCalls > 0
    /\ \E a, b \in Keys(migrations) :
          Current(a).status = "completed" /\ Current(b).status = "failed"

\* The stages of a run in their order, and the stages run e has attempted.
StageOrder == << "decrypt", "mkdtemp", "clone", "create", "seturl", "push" >>
Attempted(e) == SelectSeq(e.calls, LAMBDA c : c # "cleanup")
Attempts(e, stage) == Cardinality({ n \in DOMAIN e.calls : e.calls[n] = stage })

\* C24 (as claimed): the stages a run has attempted are the first ones of
\* decrypt, workspace, clone, creation call, re-point, push, in that order;
\* the push is attempted only when the clone did not fail and the target
\* repository was created or found existing; completed is committed only
\* after a push that did not fail.
C24_StageOrder ==
    \A id \in Ids :
        Running(id) =>
            /\ Len(Attempted(eng[id])) <= Len(StageOrder)
            /\ Attempted(eng[id]) = SubSeq(StageOrder, 1, Len(Attempted(eng[id])))
            /\ Attempts(eng[id], "push") > 0 =>
                  /\ eng[id].failedAt # "clone"
                  /\ CreateAnswer(eng[id]) \in {"created", "already_exists"}
            /\ Current(id).status = "completed" =>
                  /\ Attempts(eng[id], "push") = 1
                  /\ eng[id].phase # "busy" \/ eng[id].pc = "cleanup"
                  /\ eng[id].failedAt = ""

\* C25 (as claimed): a run attempts the clone, the creation call and the
\* push at most once each, and once a stage has failed it attempts no
\* further stage.
C25_NoRetryNoFurtherStage ==
    /\ [](\A id \in Ids :
             \A stage \in {"clone", "create", "push"} : Attempts(eng[id], stage) <= 1)
    /\ [][ \A id \in Ids :
             (Running(id) /\ (eng[id].failedAt # ""
                              \/ CreateAnswer(eng[id]) \notin {"", "created", "already_exists"}))
             => (Running(id)' => Attempted(eng'[id]) = Attempted(eng[id])) ]_vars

\* C26: a run whose decrypt has thrown attempts nothing else (no workspace,
\* no clone, no creation call, no push, and no removal as there is nothing
\* to remove), its record keeps progress 10, and when its catch block is
\* through the record is failed with an error.
C26_DecryptFailure ==
    \A id \in Ids :
        eng[id].failedAt = "decrypt" =>
            /\ eng[id].calls = << "decrypt" >>
            /\ IsNull(eng[id].tempDir)
            /\ Current(id).progress = 10
            /\ Current(id).status \in {"in_progress", "failed"}
            /\ eng[id].pc = "cleanup" =>
                  /\ Current(id).status = "failed"
                  /\ ~IsNull(Current(id).error)

\* The catch block of a run whose decrypt threw is through.
C26_Witness ==
    \E id \in Ids :
        /\ eng[id].failedAt = "decrypt"
        /\ eng[id].pc = "cleanup"
        /\ Current(id).status = "failed"
        /\ Current(id).progress = 10
        /\ Current(id).error = Some(Text("Invalid encrypted data"))

\* C27: the step in which the removal of a run's workspace fails leaves
\* every record as it is and ends the run without raising anything; a run
\* that has returned has left its record completed with no error, or failed
\* with one.
C27_CleanupFailureSwallowed ==
    /\ [][ \A id \in Ids :
             (eng[id].pc = "cleanup" /\ eng[id].phase = "busy"
              /\ eng'[id] # eng[id] /\ cleanupErrors' # cleanupErrors)
             => /\ UNCHANGED << heap, migrations >>
                /\ eng'[id].pc = "done"
                /\ ~eng'[id].escaped ]_vars
    /\ [](\A id \in Ids :
             eng[id].pc = "done" =>
                 \/ /\ Current(id).status = "completed"
                    /\ Current(id).progress = 100
                    /\ IsNull(Current(id).error)
                 \/ /\ Current(id).status = "failed"
                    /\ ~IsNull(Current(id).error))

\* The only run there was has returned after the removal of its workspace
\* failed: the record is completed and the directory is still there.
C27_Witness ==
    /\ currentId = 2
    /\ eng[1].pc = "done"
    /\ Current(1).status = "completed"
    /\ IsNull(Current(1).error)
    /\ cleanupErrors = {1}
    /\ dirs = {1}

\* The fields a mutator of the given kind may change.
MayChange(kind) ==
    CASE kind = "status" -> {"status", "startedAt", "completedAt"}
      [] kind = "progress" -> {"progress"}
      [] kind = "error" -> {"error"}

\* C28: a mutator call that returns has stored what it returns, with the
\* field it is for set to the value given; the new object has the fields of
\* the old one and differs from it at most in that field (for the status
\* mutator also in startedAt and completedAt); the registry holds the same
\* identifiers and every other record is as before.
C28_MutatorFrame ==
    [][ (ret' # ret /\ ret'.op \in {"status", "progress", "error"} /\ ~IsNull(ret'.value))
        => LET old == Current(ret'.id)
               new == heap'[ret'.id][MapGet(migrations', ret'.id)]
           IN /\ new = Val(ret'.value)
              /\ new[ret'.op] = setter.val
              /\ DOMAIN new = DOMAIN old
              /\ \A f \in DOMAIN old \ MayChange(ret'.op) : new[f] = old[f]
              /\ Keys(migrations') = Keys(migrations)
              /\ \A other \in Keys(migrations) \ {ret'.id} :
                    Current(other)' = Current(other) ]_vars

\* updateMigrationProgress has returned for record 1, which had an error
\* set, while the registry also holds record 2.
C28_Witness ==
    /\ ret.op = "progress"
    /\ ret.id = 1
    /\ ~IsNull(ret.value)
    /\ ~IsNull(Current(1).error)
    /\ Found(2)

\* C29: a mutator that has read a record and not yet written holds the
\* record's latest committed object, be it called by the engine or by a
\* direct setter; and every step that changes a record changes only the
\* fields of one kind of mutator, so nothing another writer committed is
\* undone.
C29_NoLostUpdate ==
    /\ [](\A id \in Ids :
             eng[id].phase = "write" => eng[id].rd = MapGet(migrations, id))
    /\ [](setter.kind # "none" => setter.rd = MapGet(migrations, setter.id))
    /\ [][ \A id \in Keys(migrations) :
             \E kind \in {"status", "progress", "error"} :
                 \A f \in DOMAIN Current(id) \ MayChange(kind) :
                     Current(id)'[f] = Current(id)[f] ]_vars

\* A record on which a direct setter stored an error while its transfer was
\* under way has completed with that error still in place.
C29_Witness ==
    \E id \in Keys(migrations) :
        /\ Current(id).status = "completed"
        /\ Current(id).progress = 100
        /\ Current(id).error = Some(Text("operator note"))

\* C30: an object built for a record is never changed afterwards; each
\* object after a record's first differs from the one before it in the
\* fields of one mutator only; and what getMigration and getAllMigrations
\* return, and what a caller still holds from an earlier getMigration, is
\* one of these objects.
C30_ReadsSeeCommittedVersions ==
    /\ [][ \A id \in Ids : \A k \in DOMAIN heap[id] :
             k \in DOMAIN heap'[id] /\ heap'[id][k] = heap[id][k] ]_vars
    /\ [](\A id \in Ids : \A k \in DOMAIN heap[id] :
             k > 1 => \E kind \in {"status", "progress", "error"} :
                         \A f \in DOMAIN heap[id][k] \ MayChange(kind) :
                             heap[id][k][f] = heap[id][k - 1][f])
    /\ [](\A v \in (IF IsNull(polled) THEN {} ELSE {Val(polled)})
                   \cup (IF ret.op \in {"get", "create"} /\ ~IsNull(ret.value)
                         THEN {Val(ret.value)} ELSE {})
                   \cup (IF ret.op = "list"
                         THEN { Val(ret.value)[i] : i \in DOMAIN Val(ret.value) } ELSE {}) :
             \E k \in DOMAIN heap[v.id] : heap[v.id][k] = v)

\* A caller holds the pending object of record 1 from an earlier
\* getMigration; the record has since been updated twice.
C30_Witness ==
    /\ ~IsNull(polled)
    /\ Val(polled).id = 1
    /\ Val(polled).status = "pending"
    /\ Len(heap[1]) = 3
    /\ Current(1).status = "completed"
    /\ Val(polled) = heap[1][1]

\* The creation requests the current createGitHubRepository call has sent.
CreationAttempts == { i \in DOMAIN sent : sent[i].kind = "create" }

\* What the creation requests of the current call have settled with.
TransientFailure(reply) ==
    \/ reply.kind = "timeout"
    \/ reply.kind = "response" /\ reply.status \in {502, 503, 504}
OtherErrorResponse(reply) ==
    /\ reply.kind = "response"
    /\ reply.status \notin 200 .. 299
    /\ reply.status \notin {502, 503, 504}

\* C31: createGitHubRepository sends at most three creation requests; it
\* sends a further one only after a 502, 503 or 504 response or a timeout;
\* on every other error response it has thrown without a further request;
\* after a third transient failure it has thrown that failure; and every
\* call ends.
C31_BoundedRetries ==
    /\ [](Cardinality(CreationAttempts) <= 3 /\ cr.attempt <= 3)
    /\ [][ (sent # << >> /\ Len(sent') > Len(sent) /\ sent'[Len(sent')].kind = "create")
            => /\ cr'.replies # << >>
               /\ TransientFailure(cr'.replies[Len(cr'.replies)]) ]_vars
    /\ [](\A i \in DOMAIN cr.replies :
             OtherErrorResponse(cr.replies[i])
             => /\ cr.pc = "thrown"
                /\ i = Len(cr.replies)
                /\ Cardinality(CreationAttempts) = i
                /\ Len(sent) = i)
    /\ [](Len(cr.replies) = 3 /\ TransientFailure(cr.replies[3])
            => cr.pc = "thrown" /\ cr.result = cr.lastError)
    /\ (CrRunning ~> ~CrRunning)

\* A call has thrown after three creation requests: a timeout, a 503 and a
\* 503 again.
C31_Witness ==
    /\ cr.pc = "thrown"
    /\ Cardinality(CreationAttempts) = 3
    /\ Len(cr.replies) = 3
    /\ cr.replies[1].kind = "timeout"
    /\ cr.replies[2].status = 503
    /\ cr.replies[3].status = 503
    /\ ~IsNull(cr.lastError)

Normalized == Val(sanitized.once)

\* n has no two adjacent characters of seps and neither begins nor ends with one.
Separated(n, seps) ==
    /\ \A i \in DOMAIN n : i + 1 \in DOMAIN n => ~(n[i] \in seps /\ n[i + 1] \in seps)
    /\ n # << >> => n[1] \notin seps /\ n[Len(n)] \notin seps

\* C33 (as stated): the result of sanitizeRepoName has only lower-case
\* letters, digits, '-', '_' and '.', no two adjacent separators, and no
\* separator at either end, the separators being '-', '_' and '.'.
C33_NoSeparatorRuns ==
    ~IsNull(sanitized.once) =>
        /\ \A i \in DOMAIN Normalized :
               Normalized[i] \in { Lower[k] : k \in DOMAIN Lower } \cup Digits \cup {"-", "_", "."}
        /\ Separated(Normalized, {"-", "_", "."})

\* C33 (amended): the result of sanitizeRepoName has only lower-case
\* letters, digits, '-', '_' and '.', no two adjacent '-', and no '-' at
\* either end.
C33_NoDashRuns ==
    ~IsNull(sanitized.once) =>
        /\ \A i \in DOMAIN Normalized :
               Normalized[i] \in { Lower[k] : k \in DOMAIN Lower } \cup Digits \cup {"-", "_", "."}
        /\ Separated(Normalized, {"-"})

\* "!-_" has been normalized to "_": the run of dashes at the start is
\* gone, and the underscore is the whole name.
C33_Witness ==
    /\ sanitized.name = << "!", "-", "_" >>
    /\ sanitized.once = Some(<< "_" >>)

\* C34: once a run has sent the creation call, the name in its body is the
\* normalized source name, and once it has re-pointed the remote, the
\* repository it pushes to is named so too.
C34_NormalizedNameSent ==
    \A id \in Ids :
        /\ Attempts(eng[id], "create") > 0
           => Spelled(CreateBody(Argument(id)).name) = SanitizedRepoName(Argument(id))
        /\ Attempts(eng[id], "seturl") > 0
           => Spelled(PushTarget(Argument(id))) = SanitizedRepoName(Argument(id))

\* C35: MigrationStatus sends no request for a migration once its query has
\* returned that migration with a terminal status.
C35_PollingStops ==
    [][ watch'.polls > watch.polls
        => ~(/\ ~IsNull(watch.data)
             /\ Val(watch.data).id = Val(watch.migration).id
             /\ Val(watch.data).status \in Terminal) ]_vars

\* C36: every pending record has progress 0 and no startedAt, and every
\* failed record carries a non-empty error.
C36_PendingAndFailedShape ==
    \A id \in Keys(migrations) :
        /\ Current(id).status = "pending"
           => Current(id).progress = 0 /\ IsNull(Current(id).startedAt)
        /\ Current(id).status = "failed" => Truthy(Current(id).error)

\* C37: every migration whose run has been started gets status completed or
\* failed, and a run that is over has left its record so.
C37_ReachesTerminal ==
    /\ \A id \in Ids :
          (eng[id].pc # "none")
          ~> (Found(id) /\ Current(id).status \in {"completed", "failed"})
    /\ [](\A id \in Ids :
             eng[id].pc = "done"
             => Found(id) /\ Current(id).status \in {"completed", "failed"})

\* Two runs are over, one completed and one failed at the push.
C37_Witness ==
    /\ currentId = 3
    /\ eng[1].pc = "done"
    /\ eng[2].pc = "done"
    /\ Current(1).status = "completed"
    /\ Current(2).status = "failed"
    /\ Current(2).error = Some(<< "Command failed: ", "git push --mirror" >>)

\* C38: when a create request is answered with an error, none of its
\* repositories has a record or a run, and none gets one afterwards.
C38_ErrorAnswerLeavesNothing ==
    /\ [][ (resp' # resp /\ resp'.route = "create" /\ resp'.code = 400)
            => \A i \in DOMAIN req.slots : req.slots[i].st \notin {"created", "started"} ]_vars
    /\ [][ (\E i \in DOMAIN req.slots : req.slots[i].st = "failed")
            => /\ UNCHANGED << heap, migrations, currentId >>
               /\ \A id \in Ids : eng[id].pc = "none" => eng'[id].pc = "none" ]_vars

\* ---------------------------------------------------------------- C39
\* C39: a migration record is created, read or modified through the
\* migration routes only by a request that carries a verifying Azure session
\* token and a verifying GitHub session token, and a request missing either
\* token or carrying an invalid one is answered 401 and leaves the registry
\* unchanged.
CarriesBoth(h) == h.authorization = "azure" /\ h.xgithub = "github"
MissingOrInvalid(h) ==
    h.authorization \in {"none", "invalid"} \/ h.xgithub \in {"none", "invalid"}

C39_BothTokensRequired ==
    /\ req # NoRequest => CarriesBoth(req.hdr)
    /\ setter.kind # "none" => CarriesBoth(setter.hdr)
    /\ resp.code = 200 => CarriesBoth(resp.hdr)
    /\ MissingOrInvalid(resp.hdr) => resp.code \in {0, 401}

\* ---------------------------------------------------------------- C40
\* C40: after a connection attempt on the credentials form has failed, no
\* item of session storage holds a value of that attempt: neither the raw
\* tokens, nor the organization, nor either session token.
C40_FailedConnectLeavesNoToken ==
    (connect.pc = "idle" /\ connect.outcome = "failed")
    => \A k \in SessionKeys : session[k] # Some(connect.n)

====
